---- MODULE Spec2Model ----
(***************************************************************************)
(* A model of the langchain-langgraph-agents service:                      *)
(*   - retry_middleware        (src/src/core/middleware.py)                *)
(*   - ToolErrorMiddleware     (src/src/core/middleware.py)                *)
(*   - route_to_node and the START conditional edge (src/src/agent/graph.py)*)
(*   - the /invoke and /stream endpoints over the compiled graph with its  *)
(*     MemorySaver checkpointer (src/main.py, src/src/agent/graph.py,      *)
(*     src/src/agent/nodes.py)                                             *)
(*   - the RequestContext dataclass (src/src/core/context.py)              *)
(*   - logging_middleware      (src/src/core/middleware.py)                *)
(*   - build_middleware and the agent loop of Agents.assistant with its    *)
(*     tools (src/src/core/middleware.py, src/src/agent/agents.py,         *)
(*     src/src/tools/tools.py)                                             *)
(*   - save_preference over the long-term store shared by all requests     *)
(*     (src/src/tools/tools.py, src/src/agent/graph.py)                    *)
(* Each component has its own specification (SpecRetry, SpecTool,          *)
(* SpecRoute, Spec, SpecContext, SpecLogging, SpecAgent, SpecPreferences); *)
(* a specification leaves the other components' state untouched.           *)
(***************************************************************************)
EXTENDS Integers, Sequences, FiniteSets, TLC

VARIABLES
    \* ---- retry_middleware ----
    maxRetries,     \* settings.MAX_RETRIES
    hFailsFirst,    \* the wrapped handler raises on its first hFailsFirst invocations
    attempt,        \* loop variable of `for attempt in range(settings.MAX_RETRIES)`
    calls,          \* the handler invocations made so far, in order
    delays,         \* the time.sleep(delay) calls made so far, in order
    last_error,     \* local variable last_error
    retryPc,        \* "loop" | "done"
    retryOutcome,   \* what retry_middleware returned or raised
    \* ---- ToolErrorMiddleware ----
    toolPath,       \* "sync" (wrap_tool_call) | "async" (awrap_tool_call)
    toolCall,       \* request.tool_call: a dict with "id" and (normally) "name"
    toolScript,     \* what the wrapped tool handler does when it is invoked
    toolPc,         \* "start" | "done"
    toolOutcome,    \* what the middleware returned or raised
    \* ---- route_to_node and the START conditional edge ----
    routeState,     \* the graph state handed to route_to_node
    routePc,        \* "start" | "routed" | "done"
    routeResult,    \* the value route_to_node returned
    routeTarget,    \* where the conditional edge went
    \* ---- the HTTP endpoints over the compiled graph ----
    enableSummarization, \* settings.ENABLE_SUMMARIZATION
    store,          \* MemorySaver: thread id -> values of the latest checkpoint
    reqs,           \* the requests in flight, one record per task slot
    reqCount,       \* how many requests have been received so far
    \* ---- the RequestContext dataclass ----
    ctxRecord,      \* a RequestContext instance made at the request boundary
    ctxCreated,     \* the field values it was created with
    ctxStmt,        \* the assignment some code holding the record executes
    ctxPc,          \* "start" | "done"
    ctxOutcome,     \* "pending" | "assigned" | "FrozenInstanceError"
    \* ---- logging_middleware ----
    logRequest,     \* the ModelRequest handed to logging_middleware
    logScript,      \* what the inner handler does when it is invoked
    logPc,          \* "start" | "done"
    logResult,      \* handler invocations made, log lines written, outcome
    \* ---- the agent of Agents.assistant, run by Nodes.assistant ----
    enableLogging,  \* settings.ENABLE_LOGGING
    enableRetry,    \* settings.ENABLE_RETRY
    agMaxRetries,   \* settings.MAX_RETRIES
    agChain,        \* DEFAULT_MIDDLEWARE
    agScript,       \* the tools the model asks for, turn by turn
    agent,          \* position and counters of the agent loop
    agRuns,         \* two runs side by side: context, messages, model inputs,
                    \* long-term store
    \* ---- save_preference over the shared long-term store ----
    ltStore,        \* InMemoryStore: the entries (namespace, key, value)
    prefLog         \* the save_preference calls made so far, in order

retryVars == <<maxRetries, hFailsFirst, attempt, calls, delays, last_error,
               retryPc, retryOutcome>>

toolVars == <<toolPath, toolCall, toolScript, toolPc, toolOutcome>>

routeVars == <<routeState, routePc, routeResult, routeTarget>>

serverVars == <<enableSummarization, store, reqs, reqCount>>

contextVars == <<ctxRecord, ctxCreated, ctxStmt, ctxPc, ctxOutcome>>

loggingVars == <<logRequest, logScript, logPc, logResult>>

agentVars == <<enableLogging, enableRetry, agMaxRetries, agChain, agScript,
               agent, agRuns>>

prefVars == <<ltStore, prefLog>>

vars == <<retryVars, toolVars, routeVars, serverVars, contextVars,
          loggingVars, agentVars, prefVars>>

\* What an action of one component leaves alone: the other components.
RetryFrame ==
    UNCHANGED <<toolVars, routeVars, serverVars, contextVars, loggingVars,
                agentVars, prefVars>>
ToolFrame ==
    UNCHANGED <<retryVars, routeVars, serverVars, contextVars, loggingVars,
                agentVars, prefVars>>
RouteFrame ==
    UNCHANGED <<retryVars, toolVars, serverVars, contextVars, loggingVars,
                agentVars, prefVars>>
ServerFrame ==
    UNCHANGED <<retryVars, toolVars, routeVars, contextVars, loggingVars,
                agentVars, prefVars>>
ContextFrame ==
    UNCHANGED <<retryVars, toolVars, routeVars, serverVars, loggingVars,
                agentVars, prefVars>>
LoggingFrame ==
    UNCHANGED <<retryVars, toolVars, routeVars, serverVars, contextVars,
                agentVars, prefVars>>
\* The agent reads settings.ENABLE_SUMMARIZATION, which it leaves as it is.
AgentFrame ==
    UNCHANGED <<retryVars, toolVars, routeVars, serverVars, contextVars,
                loggingVars, prefVars>>
PrefFrame ==
    UNCHANGED <<retryVars, toolVars, routeVars, serverVars, contextVars,
                loggingVars, agentVars>>

(***************************************************************************)
(* Bounds of the model.                                                    *)
(***************************************************************************)
MaxRetriesBound == 7
MaxRouteMsgs == 3
\* Requests received in one behaviour.
MaxRequests == 2
\* Content fragments one model call streams.
MaxTokens == 1
\* SummarizationMiddleware(trigger=("tokens", 8000), keep=("messages", 10)),
\* scaled down: every message counts one token.
SummarizeTriggerTokens == 3
SummarizeKeepMessages == 1
\* Messages in the state of a ModelRequest handed to logging_middleware.
MaxLogMsgs == 2
\* Tool calls the model asks for in one agent run, one per turn.
MaxToolTurns == 2
\* Model calls that fail in one agent run.
MaxModelFailures == 2
\* save_preference calls made against the long-term store.
MaxPrefCalls == 3

(***************************************************************************)
(* retry_middleware: src/src/core/middleware.py lines 74-97.               *)
(***************************************************************************)
RetryBaseDelay == 1
MaxRetryDelay == 10

\* settings.MAX_RETRIES is an unconstrained int (default 3).
MaxRetriesValues == (-1) .. MaxRetriesBound

\* A handler that raises on its first n invocations and returns on the next;
\* n = MaxRetriesBound + 1 is a handler that raises on every invocation made.
AlwaysFails == MaxRetriesBound + 1
HandlerScripts == 0 .. AlwaysFails

NoError == [kind |-> "none", k |-> 0]
HandlerError(k) == [kind |-> "handler_error", k |-> k]
HandlerResponse(k) == [kind |-> "response", k |-> k]
TypeErrorNotAnException == [kind |-> "TypeError", k |-> 0]

Pending == [how |-> "pending", val |-> NoError]
Returned(v) == [how |-> "return", val |-> v]
Raised(e) == [how |-> "raise", val |-> e]

RECURSIVE Pow2(_)
Pow2(n) == IF n <= 0 THEN 1 ELSE 2 * Pow2(n - 1)

Min(a, b) == IF a <= b THEN a ELSE b

\* delay = min(retry_base_delay * (2**attempt), max_retry_delay)
BackoffDelayUncapped(k) == RetryBaseDelay * Pow2(k)
BackoffDelayConstant(k) == RetryBaseDelay
BackoffDelay(k) == Min(RetryBaseDelay * Pow2(k), MaxRetryDelay)

\* `attempt in range(n)`: the loop body runs for attempt = 0 .. n-1.
InRangeShort(a, n) == a >= 0 /\ a < n - 1
InRange(a, n) == a >= 0 /\ a < n

\* `raise last_error`: raising None is a TypeError of the interpreter.
RaiseLastError(e) ==
    IF e = NoError THEN Raised(TypeErrorNotAnException) ELSE Raised(e)

RetryInit ==
    /\ maxRetries \in MaxRetriesValues
    /\ hFailsFirst \in HandlerScripts
    /\ attempt = 0
    /\ calls = <<>>
    /\ delays = <<>>
    /\ last_error = NoError
    /\ retryPc = "loop"
    /\ retryOutcome = Pending

RetryIdle ==
    /\ maxRetries = 0
    /\ hFailsFirst = 0
    /\ attempt = 0
    /\ calls = <<>>
    /\ delays = <<>>
    /\ last_error = NoError
    /\ retryPc = "done"
    /\ retryOutcome = Pending

\* try: return handler(request)   -- the handler returns
RetryHandlerReturns ==
    /\ retryPc = "loop"
    /\ InRange(attempt, maxRetries)
    /\ Len(calls) >= hFailsFirst
    /\ calls' = Append(calls, HandlerResponse(Len(calls) + 1))
    /\ retryOutcome' = Returned(HandlerResponse(Len(calls) + 1))
    /\ retryPc' = "done"
    /\ UNCHANGED <<maxRetries, hFailsFirst, attempt, delays, last_error>>
    /\ RetryFrame

\* except Exception as e: last_error = e; delay = ...; time.sleep(delay)
RetryHandlerRaises ==
    /\ retryPc = "loop"
    /\ InRange(attempt, maxRetries)
    /\ Len(calls) < hFailsFirst
    /\ calls' = Append(calls, HandlerError(Len(calls) + 1))
    /\ last_error' = HandlerError(Len(calls) + 1)
    /\ delays' = Append(delays, BackoffDelay(attempt))
    /\ attempt' = attempt + 1
    /\ UNCHANGED <<maxRetries, hFailsFirst, retryPc, retryOutcome>>
    /\ RetryFrame

\* the loop is exhausted: raise last_error
RetryExhausted ==
    /\ retryPc = "loop"
    /\ ~InRange(attempt, maxRetries)
    /\ retryOutcome' = RaiseLastError(last_error)
    /\ retryPc' = "done"
    /\ UNCHANGED <<maxRetries, hFailsFirst, attempt, calls, delays, last_error>>
    /\ RetryFrame

RetryNext ==
    \/ RetryHandlerReturns
    \/ RetryHandlerRaises
    \/ RetryExhausted

(***************************************************************************)
(* ToolErrorMiddleware: src/src/core/middleware.py lines 105-142.          *)
(***************************************************************************)
\* src/src/tools/tools.py line 77
TOOLS == {"get_current_time", "calculate", "get_user_info", "save_preference"}
ToolCallIds == {"call_1", "call_2", "call_3"}

\* Exceptions a tool can raise that derive from Exception, and a signal
\* that derives from BaseException only (asyncio.CancelledError).
ToolExceptions == {"ValueError", "ValidationError"}
BaseOnlyExceptions == {"CancelledError"}

\* request.tool_call: "name" may be missing from the dict, "id" is read
\* with request.tool_call["id"].
ToolCalls ==
    [id : ToolCallIds, name : TOOLS] \cup [id : ToolCallIds]

ToolScripts ==
    [how : {"return"}, val : {"ok"}]
        \cup [how : {"raise"}, val : ToolExceptions \cup BaseOnlyExceptions]

ToolMessage(content, id) ==
    [how |-> "return", type |-> "tool", content |-> content, tool_call_id |-> id]
ToolRaised(e) ==
    [how |-> "raise", type |-> "exception", content |-> <<e>>, tool_call_id |-> ""]
ToolPending ==
    [how |-> "pending", type |-> "none", content |-> <<>>, tool_call_id |-> ""]

\* request.tool_call.get("name", "unknown")
ToolName(call) == IF "name" \in DOMAIN call THEN call.name ELSE "unknown"

\* f"Tool error in '{tool_name}': {e}. Please check your input and try again."
ErrorText(tool_name, e) ==
    <<"Tool error in '", tool_name, "': ", e,
      ". Please check your input and try again.">>

\* _error_message(request, e)
ErrorMessage(call, e) == ToolMessage(ErrorText(ToolName(call), e), call.id)

\* handler(request): the tool node's execution of the call
ToolHandler(call, script) ==
    IF script.how = "return"
    THEN ToolMessage(<<"result of ", ToolName(call)>>, call.id)
    ELSE ToolRaised(script.val)

\* `except Exception`
IsException(e) == e \in ToolExceptions

\* _handle(request, handler)
Handle(call, script) ==
    LET r == ToolHandler(call, script) IN
    IF r.how = "raise" /\ IsException(r.content[1])
    THEN ErrorMessage(call, r.content[1])
    ELSE r

\* _ahandle(request, handler)
AhandleNoCatch(call, script) == ToolHandler(call, script)
Ahandle(call, script) ==
    LET r == ToolHandler(call, script) IN
    IF r.how = "raise" /\ IsException(r.content[1])
    THEN ErrorMessage(call, r.content[1])
    ELSE r

ToolInit ==
    /\ toolPath \in {"sync", "async"}
    /\ toolCall \in ToolCalls
    /\ toolScript \in ToolScripts
    /\ toolPc = "start"
    /\ toolOutcome = ToolPending

ToolIdle ==
    /\ toolPath = "sync"
    /\ toolCall = [id |-> "call_1"]
    /\ toolScript = [how |-> "return", val |-> "ok"]
    /\ toolPc = "done"
    /\ toolOutcome = ToolPending

\* def wrap_tool_call(self, request, handler)
WrapToolCall ==
    /\ toolPc = "start"
    /\ toolPath = "sync"
    /\ toolOutcome' = Handle(toolCall, toolScript)
    /\ toolPc' = "done"
    /\ UNCHANGED <<toolPath, toolCall, toolScript>>
    /\ ToolFrame

\* async def awrap_tool_call(self, request, handler)
AwrapToolCall ==
    /\ toolPc = "start"
    /\ toolPath = "async"
    /\ toolOutcome' = Ahandle(toolCall, toolScript)
    /\ toolPc' = "done"
    /\ UNCHANGED <<toolPath, toolCall, toolScript>>
    /\ ToolFrame

ToolNext ==
    \/ WrapToolCall
    \/ AwrapToolCall

(***************************************************************************)
(* route_to_node and build_graph: src/src/agent/graph.py lines 23-47.      *)
(***************************************************************************)
\* src/src/core/constants.py lines 17-20
NODES == {"assistant"}

NodeNames == {"assistant", "researcher", ""}

RECURSIVE SeqsUpTo(_, _)
SeqsUpTo(S, n) ==
    IF n = 0 THEN {<<>>}
    ELSE LET shorter == SeqsUpTo(S, n - 1) IN
         shorter \cup {Append(q, x) : q \in shorter, x \in S}

\* A State dict: "messages" is always there, "node" may be missing.
RouteStates ==
    LET msgs == SeqsUpTo({"user", "assistant"}, MaxRouteMsgs) IN
    [messages : msgs, node : NodeNames] \cup [messages : msgs]

\* return state.get("node", "assistant")
RouteAlwaysDefault(state) == "assistant"
route_to_node(state) ==
    IF "node" \in DOMAIN state THEN state.node ELSE "assistant"

\* graph.add_conditional_edges(START, route_to_node, {n: n for n in NODES})
PathMap == [n \in NODES |-> n]

\* The conditional edge looks the routing result up in the path map; a
\* result that is no key of the map raises KeyError.
BranchTarget(r) == IF r \in DOMAIN PathMap THEN PathMap[r] ELSE "KeyError"

\* from langgraph.graph import END, START
START == "__start__"
END == "__end__"

\* for node_name in NODES: graph.add_edge(node_name, END)
NodeEdgeSelf(n) == n
NodeEdge(n) == END

RouteInit ==
    /\ routeState \in RouteStates
    /\ routePc = "start"
    /\ routeResult = "(none)"
    /\ routeTarget = "(none)"

RouteIdle ==
    /\ routeState = [messages |-> <<>>]
    /\ routePc = "done"
    /\ routeResult = "(none)"
    /\ routeTarget = "(none)"

RouteCall ==
    /\ routePc = "start"
    /\ routeResult' = route_to_node(routeState)
    /\ routePc' = "routed"
    /\ UNCHANGED <<routeState, routeTarget>>
    /\ RouteFrame

RouteBranch ==
    /\ routePc = "routed"
    /\ routeTarget' = BranchTarget(routeResult)
    /\ routePc' = "done"
    /\ UNCHANGED <<routeState, routeResult>>
    /\ RouteFrame

RouteNext ==
    \/ RouteCall
    \/ RouteBranch

(***************************************************************************)
(* The endpoints /invoke and /stream (src/main.py lines 85-173) over the   *)
(* graph compiled with a MemorySaver checkpointer (src/src/agent/graph.py  *)
(* lines 28-73) and its single node (src/src/agent/nodes.py lines 25-30).  *)
(*                                                                         *)
(* The compiled graph runs as langgraph's Pregel loop: it loads the latest *)
(* checkpoint of the thread, applies the input to the channels through    *)
(* their reducers, takes the START conditional edge and saves a           *)
(* checkpoint; it then runs the routed node and, when the node returns,   *)
(* applies its update and saves the next checkpoint.  A node that raises  *)
(* ends the run with the checkpoints saved so far.                         *)
(***************************************************************************)
\* Two request tasks run at the same time on the event loop.
Slots == {1, 2}

\* InvokeRequest: message, node, thread_id (None or given), user_id (None
\* or given)
RequestNodes == {"assistant", "researcher"}
NoThreadId == "(None)"
ClientThreadIds == {"t1"}
NoUserId == "(None)"
\* No stage of the request path modelled here reads the user id; requests
\* come without one.
RequestUserIds == {NoUserId}
UserMessages == {"2+2"}

\* str(uuid.uuid4()): a fresh name for every request
UuidNames == <<"uuid-1", "uuid-2", "uuid-3", "uuid-4", "uuid-5", "uuid-6">>
ThreadIds == ClientThreadIds \cup {UuidNames[i] : i \in 1 .. MaxRequests}

\* str(NODES) in the detail of /invoke's HTTPException
NodesText == "['assistant']"

\* Messages; every message carries the id that add_messages keys on.  The
\* id of a message is fresh; it is named after the request that made it.
MsgId(kind, n) == [kind |-> kind, req |-> n]
HumanMessage(content, n) ==
    [role |-> "user", content |-> content, id |-> MsgId("human", n)]
AIMessage(n) ==
    [role |-> "assistant", content |-> "answer", id |-> MsgId("ai", n)]
SummaryMessage(n) ==
    [role |-> "user", content |-> "Here is a summary of the conversation to date",
     id |-> MsgId("summary", n)]

\* State.messages: Annotated[list[AnyMessage], add_messages].  The reducer
\* replaces a message whose id is already in the list, in place, and appends
\* the others in order.
AddMessagesOverwrite(left, right) == right
RECURSIVE AddMessages(_, _)
AddMessages(left, right) ==
    IF right = <<>> THEN left
    ELSE LET m == Head(right)
             hit == {i \in DOMAIN left : left[i].id = m.id}
             merged == IF hit = {} THEN Append(left, m)
                       ELSE [i \in DOMAIN left |->
                                IF i \in hit THEN m ELSE left[i]]
         IN  AddMessages(merged, Tail(right))

\* The channel values of the graph state, and a checkpoint of them.
EmptyChannels == [messages |-> <<>>, node |-> "", hasNode |-> FALSE]
NoCheckpoint == [exists |-> FALSE, values |-> EmptyChannels]
Checkpoint(ch) == [exists |-> TRUE, values |-> ch]

\* The State dict a node or an edge function sees.
StateView(ch) ==
    IF ch.hasNode THEN [messages |-> ch.messages, node |-> ch.node]
    ELSE [messages |-> ch.messages]

\* SummarizationMiddleware.before_model inside the agent: when the token
\* count reaches the trigger, everything but the last messages kept is
\* replaced by one summary message.
CountTokens(msgs) == Len(msgs)
Summarize(msgs, n) ==
    LET cutoff == Len(msgs) - SummarizeKeepMessages IN
    IF enableSummarization
         /\ CountTokens(msgs) >= SummarizeTriggerTokens
         /\ cutoff > 0
    THEN <<SummaryMessage(n)>> \o SubSeq(msgs, cutoff + 1, Len(msgs))
    ELSE msgs

\* agent.ainvoke(state, context=context): the messages of the agent's final
\* state when the model call succeeds.
AgentInvoke(msgs, n) == Append(Summarize(msgs, n), AIMessage(n))

\* RequestContext(user_id=request.user_id or "", session_id=thread_id)
\* The other fields keep the defaults of the dataclass: user_role: str =
\* "user", metadata: dict = field(default_factory=dict).
RequestContextNoSession(user_id, session_id) ==
    [user_id |-> user_id, session_id |-> "", user_role |-> "user",
     metadata |-> {}]
RequestContext(user_id, session_id) ==
    [user_id |-> user_id, session_id |-> session_id, user_role |-> "user",
     metadata |-> {}]

IdleRequest ==
    [pc |-> "idle", endpoint |-> "", node |-> "", thread_id |-> "",
     message |-> "", reqNo |-> 0, context |-> RequestContext("", ""),
     status |-> 0, detail |-> <<>>, response |-> "", events |-> <<>>,
     tokens |-> 0, local |-> EmptyChannels, puts |-> 0,
     before |-> NoCheckpoint, after |-> NoCheckpoint, alone |-> TRUE,
     reported |-> "", path |-> <<>>]

\* The vertices a graph run has entered so far end with the node that runs.
CurrentNode(q) == q.path[Len(q.path)]

InFlight(q) == q.pc \in {"accepted", "running"}
Terminal(q) == q.pc \in {"rejected", "done", "failed", "abandoned"}

\* Tasks are interchangeable: a new request takes the lowest slot whose
\* task has not started or is over.
IdleSlots == {r \in Slots : reqs[r].pc = "idle" \/ Terminal(reqs[r])}
FreeSlot ==
    IF IdleSlots = {} THEN 0
    ELSE CHOOSE r \in IdleSlots : \A o \in IdleSlots : r <= o

\* f"Unknown node: {request.node}. Available: {NODES}"  (invoke)
\* f"Unknown node: {request.node}"                      (stream)
UnknownNodeDetail(endpoint, node) ==
    IF endpoint = "invoke"
    THEN <<"Unknown node: ", node, ". Available: ", NodesText>>
    ELSE <<"Unknown node: ", node>>

\* thread_id = request.thread_id or str(uuid.uuid4()); NoThreadId stands for
\* None and for the empty string
ResolveThreadId(tid, n) == IF tid = NoThreadId THEN UuidNames[n] ELSE tid

\* user_id=request.user_id or ""
ResolveUserId(uid) == IF uid = NoUserId THEN "" ELSE uid

\* The thread id in the response: /stream returns its StreamingResponse,
\* with the header X-Thread-ID, before the generator runs; /invoke reports
\* the thread id in the body of InvokeResponse.
HeaderThreadId(endpoint, t) == IF endpoint = "stream" THEN t ELSE ""

\* The first lines of both endpoints: the node check, the thread id and the
\* context.  For the properties a request also records what the store held
\* for its thread when it began (before) and when it ended (after), how many
\* checkpoints its graph run saved (puts), and whether no other request on
\* the same thread was in flight during it (alone).
Arrive(r, endpoint, node, tid, uid, msg) ==
    LET n == reqCount + 1
        t == ResolveThreadId(tid, n)
        others == {o \in Slots \ {r} :
                      InFlight(reqs[o]) /\ reqs[o].thread_id = t}
        rejected == [IdleRequest EXCEPT
                        !.pc = "rejected", !.endpoint = endpoint,
                        !.node = node, !.message = msg, !.reqNo = n,
                        !.status = 400,
                        !.detail = UnknownNodeDetail(endpoint, node)]
        accepted == [IdleRequest EXCEPT
                        !.pc = "accepted", !.endpoint = endpoint,
                        !.node = node, !.message = msg, !.reqNo = n,
                        !.thread_id = t,
                        !.context = RequestContext(ResolveUserId(uid), t),
                        !.reported = HeaderThreadId(endpoint, t),
                        !.before = store[t],
                        !.alone = (others = {})]
    IN
    /\ r = FreeSlot
    /\ reqCount < MaxRequests
    /\ reqCount' = n
    /\ IF node \notin NODES
       THEN reqs' = [reqs EXCEPT ![r] = rejected]
       ELSE reqs' = [o \in Slots |->
                        IF o = r THEN accepted
                        ELSE IF o \in others
                             THEN [reqs[o] EXCEPT !.alone = FALSE]
                             ELSE reqs[o]]
    /\ UNCHANGED <<enableSummarization, store>>
    /\ ServerFrame

\* POST /invoke, up to `await graph.ainvoke(...)`
InvokeArrives(r) ==
    \E node \in RequestNodes, tid \in ClientThreadIds \cup {NoThreadId},
       uid \in RequestUserIds, msg \in UserMessages :
        Arrive(r, "invoke", node, tid, uid, msg)

\* POST /stream, up to `return StreamingResponse(generate(), ...)`
StreamArrives(r) ==
    \E node \in RequestNodes, tid \in ClientThreadIds \cup {NoThreadId},
       uid \in RequestUserIds, msg \in UserMessages :
        Arrive(r, "stream", node, tid, uid, msg)

\* The checkpointer's latest checkpoint of the thread named in the config,
\* or empty channels when it holds none.
LoadCheckpointShared(t) ==
    IF store["t1"].exists THEN store["t1"].values ELSE EmptyChannels
LoadCheckpoint(t) ==
    IF store[t].exists THEN store[t].values ELSE EmptyChannels

\* The checkpointer's put: the checkpoint is filed under the thread id of
\* the run's config, {"configurable": {"thread_id": thread_id}}.
SaveCheckpointShared(t, ch) == [store EXCEPT !["t1"] = Checkpoint(ch)]
SaveCheckpoint(t, ch) == [store EXCEPT ![t] = Checkpoint(ch)]

\* graph.ainvoke / graph.astream_events begins: load the thread's latest
\* checkpoint, apply the input {"messages": [user message], "node": node},
\* take the START conditional edge, save the checkpoint.
GraphStart(r) ==
    LET q == reqs[r]
        t == q.thread_id
        ch0 == LoadCheckpoint(t)
        ch1 == [messages |-> AddMessages(ch0.messages,
                                 <<HumanMessage(q.message, q.reqNo)>>),
                node |-> q.node, hasNode |-> TRUE]
        target == BranchTarget(route_to_node(StateView(ch1)))
    IN
    /\ q.pc = "accepted"
    /\ IF target = "KeyError"
       THEN /\ reqs' = [reqs EXCEPT ![r].pc = "failed", ![r].status = 500,
                                    ![r].detail = <<"KeyError">>,
                                    ![r].after = store[t]]
            /\ store' = store
       ELSE /\ reqs' = [reqs EXCEPT ![r].pc = "running", ![r].local = ch1,
                                    ![r].puts = @ + 1,
                                    ![r].path = <<START, target>>]
            /\ store' = SaveCheckpoint(t, ch1)
    /\ UNCHANGED <<enableSummarization, reqCount>>
    /\ ServerFrame

\* The node returned: its update goes through the reducers and the
\* checkpoint is saved.
NodeReturns(q) ==
    [q.local EXCEPT
        !.messages = AddMessages(q.local.messages,
                                 AgentInvoke(q.local.messages, q.reqNo))]

\* messages[-1].content of the result
ResponseText(msgs) == IF msgs = <<>> THEN "" ELSE msgs[Len(msgs)].content

\* /invoke: the node returned and the run follows the node's edge; at END
\* graph.ainvoke returns and InvokeResponse is built, at another node the
\* run goes on there.
InvokeReturns(r) ==
    LET q == reqs[r]
        ch2 == NodeReturns(q)
        succ == NodeEdge(CurrentNode(q))
    IN
    /\ q.pc = "running"
    /\ q.endpoint = "invoke"
    /\ store' = SaveCheckpoint(q.thread_id, ch2)
    /\ IF succ = END
       THEN reqs' = [reqs EXCEPT ![r].pc = "done", ![r].local = ch2,
                                 ![r].status = 200, ![r].puts = @ + 1,
                                 ![r].response = ResponseText(ch2.messages),
                                 ![r].reported = q.thread_id,
                                 ![r].after = Checkpoint(ch2),
                                 ![r].path = Append(@, END)]
       ELSE reqs' = [reqs EXCEPT ![r].local = ch2, ![r].puts = @ + 1,
                                 ![r].path = Append(@, succ)]
    /\ UNCHANGED <<enableSummarization, reqCount>>
    /\ ServerFrame

\* /invoke: the model call failed for good; except Exception -> 500.
InvokeFails(r) ==
    /\ reqs[r].pc = "running"
    /\ reqs[r].endpoint = "invoke"
    /\ reqs' = [reqs EXCEPT ![r].pc = "failed", ![r].status = 500,
                            ![r].detail = <<"model call failed">>,
                            ![r].after = store[reqs[r].thread_id]]
    /\ UNCHANGED <<enableSummarization, store, reqCount>>
    /\ ServerFrame

\* /stream: an on_chat_model_stream event with content -> "data: <token>"
StreamToken(r) ==
    /\ reqs[r].pc = "running"
    /\ reqs[r].endpoint = "stream"
    /\ reqs[r].tokens < MaxTokens
    /\ reqs' = [reqs EXCEPT ![r].tokens = @ + 1,
                            ![r].events = Append(@, "data: token")]
    /\ UNCHANGED <<enableSummarization, store, reqCount>>
    /\ ServerFrame

\* /stream: the node returned and the run follows the node's edge; at END
\* the event loop ends and the generator yields "data: [DONE]".
StreamCompletes(r) ==
    LET q == reqs[r]
        ch2 == NodeReturns(q)
        succ == NodeEdge(CurrentNode(q))
    IN
    /\ q.pc = "running"
    /\ q.endpoint = "stream"
    /\ store' = SaveCheckpoint(q.thread_id, ch2)
    /\ IF succ = END
       THEN reqs' = [reqs EXCEPT ![r].pc = "done", ![r].local = ch2,
                                 ![r].status = 200, ![r].puts = @ + 1,
                                 ![r].events = Append(@, "data: [DONE]"),
                                 ![r].after = Checkpoint(ch2),
                                 ![r].path = Append(@, END)]
       ELSE reqs' = [reqs EXCEPT ![r].local = ch2, ![r].puts = @ + 1,
                                 ![r].path = Append(@, succ)]
    /\ UNCHANGED <<enableSummarization, reqCount>>
    /\ ServerFrame

\* /stream: except Exception as e: yield f"data: Error: {e}"
StreamFails(r) ==
    /\ reqs[r].pc = "running"
    /\ reqs[r].endpoint = "stream"
    /\ reqs' = [reqs EXCEPT ![r].pc = "failed", ![r].status = 200,
                            ![r].events = Append(@, "data: Error: model call failed"),
                            ![r].after = store[reqs[r].thread_id]]
    /\ UNCHANGED <<enableSummarization, store, reqCount>>
    /\ ServerFrame

\* /stream: the consumer stops reading; the generator is closed where it is.
StreamAbandoned(r) ==
    /\ InFlight(reqs[r])
    /\ reqs[r].endpoint = "stream"
    /\ reqs' = [reqs EXCEPT ![r].pc = "abandoned",
                            ![r].after = store[reqs[r].thread_id]]
    /\ UNCHANGED <<enableSummarization, store, reqCount>>
    /\ ServerFrame

ServerInit ==
    /\ enableSummarization \in BOOLEAN
    /\ store = [t \in ThreadIds |-> NoCheckpoint]
    /\ reqs = [r \in Slots |-> IdleRequest]
    /\ reqCount = 0

ServerIdle ==
    /\ enableSummarization = FALSE
    /\ store = [t \in ThreadIds |-> NoCheckpoint]
    /\ reqs = [r \in Slots |-> IdleRequest]
    /\ reqCount = MaxRequests

Next ==
    \/ \E r \in Slots : InvokeArrives(r)
    \/ \E r \in Slots : StreamArrives(r)
    \/ \E r \in Slots : GraphStart(r)
    \/ \E r \in Slots : InvokeReturns(r)
    \/ \E r \in Slots : InvokeFails(r)
    \/ \E r \in Slots : StreamToken(r)
    \/ \E r \in Slots : StreamCompletes(r)
    \/ \E r \in Slots : StreamFails(r)
    \/ \E r \in Slots : StreamAbandoned(r)

(***************************************************************************)
(* The RequestContext dataclass: src/src/core/context.py lines 14-37, made *)
(* at the request boundary (src/main.py lines 96-99 and 144-147) and read  *)
(* by the node and the tools.  The class is declared with a plain          *)
(* @dataclass: its instances take attribute assignment, and the metadata   *)
(* dict takes item assignment.  The component models what an assignment    *)
(* executed by code that holds the record does.                            *)
(***************************************************************************)
\* @dataclass  (no frozen=True)
DataclassFrozen == FALSE

ContextUserIds == {"", "alice", "bob"}
ContextSessionIds == {"t1", "uuid-1", "uuid-2"}

\* context.<field> = value, and context.metadata[key] = value
ContextStatements ==
    [kind : {"setattr"}, field : {"user_id", "session_id", "user_role"},
     value : {"mallory", "admin"}]
        \cup [kind : {"setattr"}, field : {"metadata"}, value : {{"k"}}]
        \cup [kind : {"setitem"}, field : {"metadata"}, value : {"k", "role"}]

\* object.__setattr__ of a dataclass: refused when the class is frozen
SetAttr(frozen, rec, field, value) ==
    IF frozen
    THEN [rec |-> rec, outcome |-> "FrozenInstanceError"]
    ELSE [rec |-> [rec EXCEPT ![field] = value], outcome |-> "assigned"]

\* dict.__setitem__ on the metadata dict (the dict is not the dataclass)
SetItem(rec, key) ==
    [rec |-> [rec EXCEPT !.metadata = @ \cup {key}], outcome |-> "assigned"]

ContextInit ==
    /\ \E u \in ContextUserIds, t \in ContextSessionIds :
           /\ ctxRecord = RequestContext(u, t)
           /\ ctxCreated = RequestContext(u, t)
    /\ ctxStmt \in ContextStatements
    /\ ctxPc = "start"
    /\ ctxOutcome = "pending"

ContextIdle ==
    /\ ctxRecord = RequestContext("", "")
    /\ ctxCreated = RequestContext("", "")
    /\ ctxStmt = [kind |-> "setattr", field |-> "user_id", value |-> "mallory"]
    /\ ctxPc = "done"
    /\ ctxOutcome = "pending"

\* context.<field> = value
ContextSetAttr ==
    LET r == SetAttr(DataclassFrozen, ctxRecord, ctxStmt.field, ctxStmt.value) IN
    /\ ctxPc = "start"
    /\ ctxStmt.kind = "setattr"
    /\ ctxRecord' = r.rec
    /\ ctxOutcome' = r.outcome
    /\ ctxPc' = "done"
    /\ UNCHANGED <<ctxCreated, ctxStmt>>
    /\ ContextFrame

\* context.metadata[key] = value
ContextSetItem ==
    LET r == SetItem(ctxRecord, ctxStmt.value) IN
    /\ ctxPc = "start"
    /\ ctxStmt.kind = "setitem"
    /\ ctxRecord' = r.rec
    /\ ctxOutcome' = r.outcome
    /\ ctxPc' = "done"
    /\ UNCHANGED <<ctxCreated, ctxStmt>>
    /\ ContextFrame

ContextNext ==
    \/ ContextSetAttr
    \/ ContextSetItem

(***************************************************************************)
(* logging_middleware: src/src/core/middleware.py lines 46-66.             *)
(***************************************************************************)
\* The last message of request.state["messages"]: a message whose content
\* is a short string, a string of more than 100 characters or a list of
\* content blocks, or a dict (which has no attribute `content`).
LogMessages == {"short_text", "long_text", "content_blocks", "dict_message"}

\* request.state: "messages" may be an empty list.
LogRequests == [messages : SeqsUpTo(LogMessages, MaxLogMsgs)]

\* The inner handler returns a response or raises; CancelledError derives
\* from BaseException only.
LogScripts ==
    [how : {"return"}, val : {"response"}]
        \cup [how : {"raise"}, val : {"RateLimitError", "CancelledError"}]

\* content = last_msg.content if hasattr(last_msg, "content") else
\* str(last_msg); content[:100]
First100(m) ==
    IF m = "dict_message" THEN <<"str(", m, ")[:100]">>
    ELSE IF m = "short_text" THEN <<m>>
    ELSE <<m, "[:100]">>

\* logger.info(f"[LLM Request] {content[:100]}...")
RequestLine(m) == <<"[LLM Request] ">> \o First100(m) \o <<"...">>

\* logger.info(f"[LLM Response] {elapsed:.2f}s")
ResponseLine == <<"[LLM Response] ", "elapsed", "s">>

NoLogResult ==
    [calls |-> <<>>, lines |-> <<>>, outcome |-> [how |-> "pending", val |-> ""]]

\* logging_middleware(request, handler): what it passed to the handler,
\* what it logged and what it returned or raised.
LoggingMiddlewareSwallows(request, script) ==
    [calls |-> <<request>>, lines |-> <<>>,
     outcome |-> [how |-> "return", val |-> "response"]]
LoggingMiddleware(request, script) ==
    LET msgs == request.messages
        before == IF msgs /= <<>> THEN <<RequestLine(msgs[Len(msgs)])>>
                  ELSE <<>>
    IN  [calls |-> <<request>>,
         lines |-> IF script.how = "return" THEN Append(before, ResponseLine)
                   ELSE before,
         outcome |-> [how |-> script.how, val |-> script.val]]

LoggingInit ==
    /\ logRequest \in LogRequests
    /\ logScript \in LogScripts
    /\ logPc = "start"
    /\ logResult = NoLogResult

LoggingIdle ==
    /\ logRequest = [messages |-> <<>>]
    /\ logScript = [how |-> "return", val |-> "response"]
    /\ logPc = "done"
    /\ logResult = NoLogResult

\* def logging_middleware(request, handler)
LoggingCall ==
    /\ logPc = "start"
    /\ logResult' = LoggingMiddleware(logRequest, logScript)
    /\ logPc' = "done"
    /\ UNCHANGED <<logRequest, logScript>>
    /\ LoggingFrame

LoggingNext == LoggingCall

(***************************************************************************)
(* The agent: build_middleware (src/src/core/middleware.py lines 286-317), *)
(* Agents.assistant (src/src/agent/agents.py lines 45-55), run by          *)
(* Nodes.assistant (src/src/agent/nodes.py lines 25-30) with the tools of  *)
(* src/src/tools/tools.py.                                                 *)
(*                                                                         *)
(* create_agent builds the loop: the before_model hooks (summarization),   *)
(* the model call inside the wrap_model_call stages, then, when the        *)
(* response holds a tool call, the tool inside the wrap_tool_call stages,  *)
(* and back to before_model; a response without a tool call ends the run.  *)
(* The wrap stages nest in list order, the first in the list outermost.    *)
(* Two runs are carried side by side: they get the same messages, the same *)
(* model behaviour and the same failures, and differ in the Context Record.*)
(***************************************************************************)
Runs == {"a", "b"}

\* def build_middleware() -> list
BuildMiddlewareRetryFirst(summarization, logging, retry) ==
    (IF summarization THEN <<"summarization">> ELSE <<>>)
        \o (IF retry THEN <<"retry">> ELSE <<>>)
        \o (IF logging THEN <<"logging">> ELSE <<>>)
        \o <<"tool_error">>
BuildMiddleware(summarization, logging, retry) ==
    (IF summarization THEN <<"summarization">> ELSE <<>>)
        \o (IF logging THEN <<"logging">> ELSE <<>>)
        \o (IF retry THEN <<"retry">> ELSE <<>>)
        \o <<"tool_error">>

InChain(chain, stage) == \E i \in DOMAIN chain : chain[i] = stage
IndexOf(chain, stage) == CHOOSE i \in DOMAIN chain : chain[i] = stage

\* The logging stage is nested inside the retry stage when both are in the
\* chain and retry comes first.
LoggingInsideRetry(chain) ==
    /\ InChain(chain, "logging")
    /\ InChain(chain, "retry")
    /\ IndexOf(chain, "retry") < IndexOf(chain, "logging")

\* settings.MAX_RETRIES as the agent's retry stage reads it
AgentMaxRetriesValues == {0, 2, 3}

\* The tools the model asks for (get_current_time reads the clock only).
ScriptTools == {"get_user_info", "save_preference", "calculate"}
AgentScripts == SeqsUpTo(ScriptTools, MaxToolTurns)

\* The Context Records of the two runs: run "a" is alice's request on
\* thread t1, run "b" differs in the user id or in the session id.
ContextOfRunA == RequestContext("alice", "t1")
ContextsOfRunB == {RequestContext("bob", "t1"), RequestContext("alice", "t2")}

CallIdNames == <<"call_1", "call_2", "call_3">>

\* Messages of the agent state.
AgentMsg(role, content, id, tool_call_id, tool_calls) ==
    [role |-> role, content |-> content, id |-> id,
     tool_call_id |-> tool_call_id, tool_calls |-> tool_calls]
AgentUserMessage ==
    AgentMsg("user", <<"who am I">>, MsgId("human", 1), "", <<>>)
\* The model's response of turn k: a call of the tool the script names, or
\* the final answer.
AgentAIMessage(script, k) ==
    IF k <= Len(script)
    THEN AgentMsg("assistant", <<>>, MsgId("ai", k), "",
                  <<[id |-> CallIdNames[k], name |-> script[k]]>>)
    ELSE AgentMsg("assistant", <<"answer">>, MsgId("ai", k), "", <<>>)
AgentSummaryMessage(n) ==
    AgentMsg("user", <<"Here is a summary of the conversation to date">>,
             MsgId("summary", n), "", <<>>)

\* The long-term store: entries addressed by namespace and key.
StorePut(st, namespace, key, value) ==
    {e \in st : ~(e.namespace = namespace /\ e.key = key)}
        \cup {[namespace |-> namespace, key |-> key, value |-> value]}

\* The arguments the model gives save_preference.
PrefKey == "theme"
PrefValue == "dark"

\* What a tool returns as the content of its tool message.
\*   get_user_info:   f"User: {user_id}, Session: {session_id}"
\*   save_preference: f"Saved preference '{key}' = '{value}' for user {user_id}"
\*   calculate:       str(eval(expression))
ToolContent(name, ctx) ==
    IF name = "get_user_info"
    THEN <<"User: ", ctx.user_id, ", Session: ", ctx.session_id>>
    ELSE IF name = "save_preference"
    THEN <<"Saved preference '", PrefKey, "' = '", PrefValue,
           "' for user ", ctx.user_id>>
    ELSE <<"4">>

\* runtime.store.put(("preferences", user_id), key, {"value": value})
\* The user ids of the two runs are labels the store accepts; the calls of
\* requests without a user id are modelled with SavePreference below.
ToolStoreEffect(name, ctx, st) ==
    IF name = "save_preference"
    THEN StorePut(st, <<"preferences", ctx.user_id>>, PrefKey, PrefValue)
    ELSE st

\* SummarizationMiddleware.before_model: the cutoff is the largest one, not
\* above len - keep, that does not separate a tool call from its tool
\* message; with a cutoff of 0 nothing is summarized.
Separates(msgs, c) ==
    \E i, j \in DOMAIN msgs :
        /\ msgs[i].tool_calls /= <<>>
        /\ msgs[j].role = "tool"
        /\ msgs[j].tool_call_id = msgs[i].tool_calls[1].id
        /\ (i <= c) /= (j <= c)
SafeCutoff(msgs) ==
    IF Len(msgs) <= SummarizeKeepMessages THEN 0
    ELSE LET safe == {c \in 0 .. (Len(msgs) - SummarizeKeepMessages) :
                         ~Separates(msgs, c)}
         IN  CHOOSE c \in safe : \A d \in safe : d <= c
SummarizationFires(chain, msgs) ==
    /\ InChain(chain, "summarization")
    /\ CountTokens(msgs) >= SummarizeTriggerTokens
    /\ SafeCutoff(msgs) > 0
AgentSummarize(chain, msgs, n) ==
    IF SummarizationFires(chain, msgs)
    THEN <<AgentSummaryMessage(n)>>
             \o SubSeq(msgs, SafeCutoff(msgs) + 1, Len(msgs))
    ELSE msgs
\* The input of the summarization model call: the messages summarized.
SummaryInput(chain, msgs) ==
    IF SummarizationFires(chain, msgs)
    THEN <<SubSeq(msgs, 1, SafeCutoff(msgs))>>
    ELSE <<>>

\* `return handler(request)` in retry_middleware: the handler is the model
\* call (and the wrap_model_call stages nested inside); of the tool calls
\* already executed in the run, the ones a repeated attempt executes again.
ToolCallsInsideRetryAll(executed) == executed
ToolCallsInsideRetry(executed) == {}

AgentStart ==
    [pc |-> "before_model", turn |-> 1, attempt |-> 0, last_error |-> NoError,
     failures |-> 0, stepFailures |-> 0, steps |-> 0, logRequests |-> 0,
     modelCalls |-> 0, delays |-> <<>>,
     execs |-> [i \in DOMAIN CallIdNames |-> 0], outcome |-> Pending]

AgentInit ==
    /\ enableSummarization \in BOOLEAN
    /\ enableLogging \in BOOLEAN
    /\ enableRetry \in BOOLEAN
    /\ agMaxRetries \in AgentMaxRetriesValues
    /\ agChain = BuildMiddleware(enableSummarization, enableLogging, enableRetry)
    /\ agScript \in AgentScripts
    /\ agent = AgentStart
    /\ \E cb \in ContextsOfRunB :
           agRuns = [r \in Runs |->
                        [ctx |-> IF r = "a" THEN ContextOfRunA ELSE cb,
                         msgs |-> <<AgentUserMessage>>,
                         inputs |-> <<>>,
                         prefs |-> {}]]

AgentIdle ==
    /\ enableLogging = FALSE
    /\ enableRetry = FALSE
    /\ agMaxRetries = 3
    /\ agChain = <<"tool_error">>
    /\ agScript = <<>>
    /\ agent = [AgentStart EXCEPT !.pc = "idle"]
    /\ agRuns = [r \in Runs |->
                    [ctx |-> ContextOfRunA, msgs |-> <<>>, inputs |-> <<>>,
                     prefs |-> {}]]

AgentConfigUnchanged ==
    UNCHANGED <<enableSummarization, enableLogging, enableRetry, agMaxRetries,
                agChain, agScript>>

\* The model call is made with the messages of the state: an input is sent.
SendInput(run) == [run EXCEPT !.inputs = Append(@, run.msgs)]

\* Log lines "[LLM Request]" written when the model step is entered and
\* when an attempt is made.
LogsAtEntry(chain) ==
    IF InChain(chain, "logging") /\ ~LoggingInsideRetry(chain) THEN 1 ELSE 0
LogsAtAttempt(chain) == IF LoggingInsideRetry(chain) THEN 1 ELSE 0

\* before_model (summarization), then the wrap_model_call stages are
\* entered from the outermost: the retry loop starts at attempt 0.
AgentBeforeModel ==
    /\ agent.pc = "before_model"
    /\ agRuns' = [r \in Runs |->
                    [agRuns[r] EXCEPT
                        !.inputs = @ \o SummaryInput(agChain, agRuns[r].msgs),
                        !.msgs = AgentSummarize(agChain, @, agent.steps + 1)]]
    /\ agent' = [agent EXCEPT !.pc = "model", !.steps = @ + 1,
                              !.attempt = 0, !.last_error = NoError,
                              !.stepFailures = 0,
                              !.logRequests = @ + LogsAtEntry(agChain)]
    /\ AgentConfigUnchanged
    /\ AgentFrame

\* May the model be called now: always without a retry stage, inside
\* `for attempt in range(settings.MAX_RETRIES)` with one.
AttemptAllowed ==
    InChain(agChain, "retry") => InRange(agent.attempt, agMaxRetries)

\* The model call returns its response: a tool call or the final answer.
AgentModelReturns ==
    LET ai == AgentAIMessage(agScript, agent.turn) IN
    /\ agent.pc = "model"
    /\ AttemptAllowed
    /\ agRuns' = [r \in Runs |->
                    [SendInput(agRuns[r]) EXCEPT !.msgs = Append(@, ai)]]
    /\ agent' = [agent EXCEPT
                    !.pc = IF ai.tool_calls /= <<>> THEN "tools" ELSE "done",
                    !.modelCalls = @ + 1,
                    !.logRequests = @ + LogsAtAttempt(agChain),
                    !.outcome = IF ai.tool_calls /= <<>> THEN @
                                ELSE Returned(HandlerResponse(agent.turn))]
    /\ AgentConfigUnchanged
    /\ AgentFrame

\* The model call raises.  With a retry stage: last_error = e, the backoff
\* sleep, the next attempt; without one the error ends the run.
AgentModelRaises ==
    LET e == HandlerError(agent.modelCalls + 1)
        executed == {i \in DOMAIN agent.execs : agent.execs[i] > 0}
        again == ToolCallsInsideRetry(executed)
    IN
    /\ agent.pc = "model"
    /\ AttemptAllowed
    /\ agent.failures < MaxModelFailures
    /\ agRuns' = [r \in Runs |-> SendInput(agRuns[r])]
    /\ IF InChain(agChain, "retry")
       THEN agent' = [agent EXCEPT
                        !.modelCalls = @ + 1, !.failures = @ + 1,
                        !.stepFailures = @ + 1,
                        !.logRequests = @ + LogsAtAttempt(agChain),
                        !.last_error = e,
                        !.delays = Append(@, BackoffDelay(agent.attempt)),
                        !.attempt = @ + 1,
                        !.execs = [i \in DOMAIN @ |->
                                     IF i \in again THEN @[i] + 1 ELSE @[i]]]
       ELSE agent' = [agent EXCEPT
                        !.modelCalls = @ + 1, !.failures = @ + 1,
                        !.stepFailures = @ + 1,
                        !.pc = "failed", !.outcome = Raised(e)]
    /\ AgentConfigUnchanged
    /\ AgentFrame

\* The retry loop is exhausted: raise last_error ends the run.
AgentRetryExhausted ==
    /\ agent.pc = "model"
    /\ ~AttemptAllowed
    /\ agent' = [agent EXCEPT !.pc = "failed",
                              !.outcome = RaiseLastError(agent.last_error)]
    /\ UNCHANGED agRuns
    /\ AgentConfigUnchanged
    /\ AgentFrame

\* The tool call of the last response, as the tool node hands it on.
PendingToolCall == [id |-> CallIdNames[agent.turn], name |-> agScript[agent.turn]]

\* The tool_call_id of the tool message a tool's return makes.  For a str
\* return the tool node builds the message with the id of the call; in
\* save_preference's Command it is "tool_call_id": runtime.tool_call_id,
\* the id of the call being executed.
ToolResultCallIdMissing(call) == ""
ToolResultCallId(call) == call.id

\* The tool runs and returns: its tool message is appended to the state.
AgentToolReturns ==
    LET call == PendingToolCall IN
    /\ agent.pc = "tools"
    /\ agRuns' = [r \in Runs |->
                    [agRuns[r] EXCEPT
                        !.msgs = Append(@, AgentMsg("tool",
                                     ToolContent(call.name, agRuns[r].ctx),
                                     MsgId("tool", agent.turn),
                                     ToolResultCallId(call), <<>>)),
                        !.prefs = ToolStoreEffect(call.name, agRuns[r].ctx, @)]]
    /\ agent' = [agent EXCEPT !.pc = "before_model", !.turn = @ + 1,
                              !.execs[agent.turn] = @ + 1]
    /\ AgentConfigUnchanged
    /\ AgentFrame

\* The tool raises: ToolErrorMiddleware.awrap_tool_call turns the exception
\* into a tool message.
AgentToolRaises ==
    LET call == PendingToolCall
        m == Ahandle(call, [how |-> "raise", val |-> "ValueError"])
    IN
    /\ agent.pc = "tools"
    /\ agRuns' = [r \in Runs |->
                    [agRuns[r] EXCEPT
                        !.msgs = Append(@, AgentMsg("tool", m.content,
                                     MsgId("tool", agent.turn),
                                     m.tool_call_id, <<>>))]]
    /\ agent' = [agent EXCEPT !.pc = "before_model", !.turn = @ + 1,
                              !.execs[agent.turn] = @ + 1]
    /\ AgentConfigUnchanged
    /\ AgentFrame

AgentNext ==
    \/ AgentBeforeModel
    \/ AgentModelReturns
    \/ AgentModelRaises
    \/ AgentRetryExhausted
    \/ AgentToolReturns
    \/ AgentToolRaises

(***************************************************************************)
(* save_preference (src/src/tools/tools.py lines 50-74) over the long-term *)
(* store.  compile_graph gives the graph one InMemoryStore                 *)
(* (src/src/agent/graph.py lines 67-73) that every request's tools reach   *)
(* as runtime.store; the context of a request is made at the endpoint      *)
(* (src/main.py lines 96-99).  A step is one request in which the model    *)
(* calls save_preference once, run under ToolErrorMiddleware.              *)
(*                                                                         *)
(* The store's put validates the namespace before it writes: a label that  *)
(* is the empty string or holds a period raises InvalidNamespaceError, a   *)
(* ValueError.                                                             *)
(***************************************************************************)
\* InvokeRequest.user_id: None (NoUserId), or the client's string
PrefUserIds == {NoUserId, "alice", "bob", "j.doe"}
PrefKeys == {"theme", "lang"}
PrefValues == {"dark", "light"}

\* Labels of the model that hold a period.
LabelsWithPeriod == {"j.doe"}

\* The store's check of a namespace tuple.
ValidNamespace(namespace) ==
    /\ namespace /= <<>>
    /\ \A i \in DOMAIN namespace :
          namespace[i] /= "" /\ namespace[i] \notin LabelsWithPeriod

\* user_id = runtime.context.user_id if runtime.context else "anonymous"
\* (Nodes.assistant hands the agent `runtime.context or RequestContext()`:
\* the tool always finds a context.)
PrefNamespace(ctx) == <<"preferences", ctx.user_id>>

\* save_preference(key, value, runtime) as the tool node runs it for a call:
\* the put, then the Command whose update holds the tool message; a put
\* that raises ends the tool before it returns.
SavePreference(ctx, key, value, call, st) ==
    IF ValidNamespace(PrefNamespace(ctx))
    THEN [store |-> StorePut(st, PrefNamespace(ctx), key, value),
          script |-> [how |-> "return", val |-> "None"],
          message |-> ToolMessage(<<"Saved preference '", key, "' = '", value,
                                    "' for user ", ctx.user_id>>, call.id)]
    ELSE [store |-> st,
          script |-> [how |-> "raise", val |-> "ValueError"],
          message |-> ToolPending]

\* The call under ToolErrorMiddleware.awrap_tool_call: the Command's message
\* when the tool returned, _error_message's when it raised.
SavePreferenceCall(ctx, key, value, call, st) ==
    LET res == SavePreference(ctx, key, value, call, st) IN
    [store |-> res.store,
     message |-> IF res.script.how = "raise"
                 THEN Ahandle(call, res.script)
                 ELSE res.message]

PrefInit ==
    /\ ltStore = {}
    /\ prefLog = <<>>

PrefIdle ==
    /\ ltStore = {}
    /\ prefLog = <<>>

\* A request of user uid (or of nobody) in which the model calls
\* save_preference(key, value).
PrefRequest ==
    \E uid \in PrefUserIds, key \in PrefKeys, value \in PrefValues :
        LET ctx == RequestContext(ResolveUserId(uid), "t1")
            call == [id |-> CallIdNames[1], name |-> "save_preference"]
            res == SavePreferenceCall(ctx, key, value, call, ltStore)
        IN
        /\ Len(prefLog) < MaxPrefCalls
        /\ ltStore' = res.store
        /\ prefLog' = Append(prefLog, [uid |-> uid, key |-> key,
                                       value |-> value, context |-> ctx,
                                       message |-> res.message])
        /\ PrefFrame

PrefNext == PrefRequest

(***************************************************************************)
(* Specifications of the components.                                       *)
(***************************************************************************)
RetrySpecInit ==
    /\ RetryInit /\ ToolIdle /\ RouteIdle /\ ServerIdle /\ ContextIdle
    /\ LoggingIdle /\ AgentIdle /\ PrefIdle
SpecRetry == RetrySpecInit /\ [][RetryNext]_vars

ToolSpecInit ==
    /\ ToolInit /\ RetryIdle /\ RouteIdle /\ ServerIdle /\ ContextIdle
    /\ LoggingIdle /\ AgentIdle /\ PrefIdle
SpecTool == ToolSpecInit /\ [][ToolNext]_vars

RouteSpecInit ==
    /\ RouteInit /\ RetryIdle /\ ToolIdle /\ ServerIdle /\ ContextIdle
    /\ LoggingIdle /\ AgentIdle /\ PrefIdle
SpecRoute == RouteSpecInit /\ [][RouteNext]_vars

ContextSpecInit ==
    /\ ContextInit /\ RetryIdle /\ ToolIdle /\ RouteIdle /\ ServerIdle
    /\ LoggingIdle /\ AgentIdle /\ PrefIdle
SpecContext == ContextSpecInit /\ [][ContextNext]_vars

LoggingSpecInit ==
    /\ LoggingInit /\ RetryIdle /\ ToolIdle /\ RouteIdle /\ ServerIdle
    /\ ContextIdle /\ AgentIdle /\ PrefIdle
SpecLogging == LoggingSpecInit /\ [][LoggingNext]_vars

\* The agent's specification chooses settings.ENABLE_SUMMARIZATION itself;
\* the endpoints are at rest.
AgentSpecInit ==
    /\ AgentInit
    /\ store = [t \in ThreadIds |-> NoCheckpoint]
    /\ reqs = [r \in Slots |-> IdleRequest]
    /\ reqCount = MaxRequests
    /\ RetryIdle /\ ToolIdle /\ RouteIdle /\ ContextIdle /\ LoggingIdle
    /\ PrefIdle
SpecAgent == AgentSpecInit /\ [][AgentNext]_vars

PrefSpecInit ==
    /\ PrefInit /\ RetryIdle /\ ToolIdle /\ RouteIdle /\ ServerIdle
    /\ ContextIdle /\ LoggingIdle /\ AgentIdle
SpecPreferences == PrefSpecInit /\ [][PrefNext]_vars

Init ==
    /\ ServerInit /\ RetryIdle /\ ToolIdle /\ RouteIdle /\ ContextIdle
    /\ LoggingIdle /\ AgentIdle /\ PrefIdle
Spec == Init /\ [][Next]_vars

(***************************************************************************)
(* Properties of retry_middleware (checked under SpecRetry).               *)
(***************************************************************************)

\* C1: when the handler raises on its first N-1 invocations and returns on
\* the N-th, with 1 <= N <= MAX_RETRIES, a finished run of retry_middleware
\* has invoked the handler exactly N times (N-1 failures, then the success,
\* nothing after it) and has returned the result of the N-th invocation.
C1_RetrySucceedsOnNth ==
    LET N == hFailsFirst + 1 IN
    (retryPc = "done" /\ 1 <= N /\ N <= maxRetries) =>
        /\ Len(calls) = N
        /\ \A i \in 1 .. (N - 1) : calls[i].kind = "handler_error"
        /\ calls[N] = HandlerResponse(N)
        /\ retryOutcome = Returned(calls[N])

\* A run that failed twice and succeeded on the third and last attempt.
C1_Witness ==
    /\ retryPc = "done"
    /\ maxRetries = 3
    /\ hFailsFirst = 2
    /\ Len(calls) = 3
    /\ retryOutcome = Returned(HandlerResponse(3))

\* C2: when the handler raises on every invocation, a finished run of
\* retry_middleware has invoked it exactly MAX_RETRIES times and has raised
\* the error of the last attempt (it returned nothing and raised nothing
\* else).
C2_RetryExhaustionReraisesLast ==
    (retryPc = "done" /\ hFailsFirst = AlwaysFails) =>
        /\ Len(calls) = maxRetries
        /\ retryOutcome.how = "raise"
        /\ retryOutcome.val.kind = "handler_error"
        /\ retryOutcome.val = HandlerError(Len(calls))

\* The same statement for MAX_RETRIES >= 1 only, where the loop body runs.
C2_ExhaustionWithPositiveMax ==
    (retryPc = "done" /\ hFailsFirst = AlwaysFails /\ maxRetries >= 1) =>
        /\ Len(calls) = maxRetries
        /\ retryOutcome = Raised(HandlerError(maxRetries))

\* The run that the claim is wrong about: no attempt is configured, the
\* handler is never invoked and the stage raises a TypeError of its own.
C2_Witness ==
    /\ retryPc = "done"
    /\ hFailsFirst = AlwaysFails
    /\ maxRetries = 0
    /\ calls = <<>>
    /\ retryOutcome = Raised(TypeErrorNotAnException)

\* C13: every failed attempt is followed by one delay, and the delay applied
\* after the failed attempt with 0-based index k is min(base * 2^k,
\* max_delay) with base = retry_base_delay and max_delay = max_retry_delay;
\* no delay exceeds max_delay.
C13_BackoffDelayFormula ==
    \A i \in DOMAIN delays :
        LET k == i - 1
            uncapped == RetryBaseDelay * (2 ^ k)
        IN  /\ i \in DOMAIN calls
            /\ calls[i].kind = "handler_error"
            /\ delays[i] = (IF uncapped <= MaxRetryDelay
                            THEN uncapped ELSE MaxRetryDelay)
            /\ delays[i] <= MaxRetryDelay

\* A run whose fifth failure (index 4) was followed by the capped delay.
C13_Witness ==
    /\ Len(delays) >= 5
    /\ delays[4] = 8
    /\ delays[5] = MaxRetryDelay

\* C14 (as claimed): within one run the delays applied between consecutive
\* attempts are strictly increasing, whatever MAX_RETRIES is.  The delay
\* with number i lies between two attempts when attempt i+1 was made.
C14_StrictlyIncreasingDelays ==
    \A i \in DOMAIN delays :
        (i + 1 \in DOMAIN delays /\ i + 2 \in DOMAIN calls) =>
            delays[i] < delays[i + 1]

\* C14 (amended): within one run the delays never decrease; each delay is
\* greater than the one before it as long as that one is below max_delay,
\* and once a delay has reached max_delay every later delay equals it.
C14_DelaysIncreaseUpToCap ==
    \A i \in DOMAIN delays :
        (i + 1 \in DOMAIN delays) =>
            /\ delays[i] <= delays[i + 1]
            /\ delays[i] < MaxRetryDelay => delays[i] < delays[i + 1]
            /\ delays[i] = MaxRetryDelay => delays[i + 1] = MaxRetryDelay

\* Seven attempts were made; the delays after the fifth and after the sixth
\* attempt, both followed by another attempt, are the same.
C14_Witness ==
    /\ maxRetries = 7
    /\ Len(calls) = 7
    /\ Len(delays) >= 6
    /\ delays[5] = delays[6]

\* C15: a finished run with A attempts has applied exactly A-1 delays; no
\* delay follows the final attempt.
C15_DelaysOnlyBetweenAttempts ==
    (retryPc = "done" /\ calls /= <<>>) =>
        Len(delays) = Len(calls) - 1

\* What holds: one delay after every failed attempt, the final one included.
C15_DelayAfterEveryFailure ==
    Len(delays) = Cardinality({i \in DOMAIN calls :
                                  calls[i].kind = "handler_error"})

\* Three attempts failed, three delays were applied and the error was
\* raised after the third delay.
C15_Witness ==
    /\ retryPc = "done"
    /\ maxRetries = 3
    /\ hFailsFirst = AlwaysFails
    /\ Len(calls) = 3
    /\ Len(delays) = 3
    /\ delays[3] = 4
    /\ retryOutcome = Raised(HandlerError(3))

\* C23: for every value of MAX_RETRIES, zero and negative values included, a
\* finished run of retry_middleware has invoked the handler at least once,
\* and its outcome is a response the handler returned or an error the
\* handler raised, never an error made by the retry stage itself.
C23_HandlerInvokedForEveryMaxRetries ==
    (retryPc = "done" /\ retryOutcome /= Pending) =>
        /\ Len(calls) >= 1
        /\ \E i \in DOMAIN calls :
              \/ retryOutcome = Returned(calls[i])
              \/ retryOutcome = Raised(calls[i])

\* What holds: the same statement for MAX_RETRIES >= 1, and for every value
\* the stage raises its own TypeError exactly when it never ran the handler.
C23_OwnErrorOnlyWithoutAttempt ==
    (retryPc = "done" /\ retryOutcome /= Pending) =>
        /\ (maxRetries >= 1) =>
              /\ Len(calls) >= 1
              /\ \/ retryOutcome = Returned(calls[Len(calls)])
                 \/ retryOutcome = Raised(calls[Len(calls)])
        /\ (maxRetries <= 0) =>
              /\ calls = <<>>
              /\ retryOutcome = Raised(TypeErrorNotAnException)

\* MAX_RETRIES is negative and the handler would have returned on its first
\* invocation: it is never invoked and the stage raises its own TypeError.
C23_Witness ==
    /\ retryPc = "done"
    /\ maxRetries = -1
    /\ hFailsFirst = 0
    /\ calls = <<>>
    /\ delays = <<>>
    /\ retryOutcome = Raised(TypeErrorNotAnException)

(***************************************************************************)
(* Properties of ToolErrorMiddleware (checked under SpecTool).             *)
(***************************************************************************)

\* C3: on the sync and on the async path, a tool call whose execution raises
\* an exception (an instance of Exception) does not make the middleware
\* raise: it returns a tool message whose tool_call_id is the id of the
\* originating tool call and whose content carries the error.
C3_ToolErrorIsolated ==
    (toolPc = "done" /\ toolScript.how = "raise"
        /\ toolScript.val \in ToolExceptions) =>
        /\ toolOutcome.how = "return"
        /\ toolOutcome.type = "tool"
        /\ toolOutcome.tool_call_id = toolCall.id
        /\ \E i \in DOMAIN toolOutcome.content :
               toolOutcome.content[i] = toolScript.val

\* An awaited tool call raised and came back as a tool message.
C3_Witness ==
    /\ toolPc = "done"
    /\ toolPath = "async"
    /\ toolScript = [how |-> "raise", val |-> "ValueError"]
    /\ toolCall.id = "call_2"
    /\ toolOutcome.how = "return"
    /\ toolOutcome.tool_call_id = "call_2"

(***************************************************************************)
(* Properties of route_to_node (checked under SpecRoute).                  *)
(***************************************************************************)
HasNode(state) == "node" \in DOMAIN state

Contains(seq, x) == \E i \in DOMAIN seq : seq[i] = x
HasMessage(msgs, id) == \E i \in DOMAIN msgs : msgs[i].id = id
Position(msgs, id) == CHOOSE i \in DOMAIN msgs : msgs[i].id = id
IsStrictPrefix(a, b) == Len(a) < Len(b) /\ SubSeq(b, 1, Len(a)) = a

\* C5: on /invoke and on /stream a request for an unregistered node is
\* answered 400 with a detail that names the valid node set, and the graph
\* was not invoked for it: its run holds no state and saved no checkpoint.
C5_UnknownNodeNamesValidNodes ==
    \A r \in Slots :
        (reqs[r].pc = "rejected") =>
            /\ reqs[r].status = 400
            /\ Contains(reqs[r].detail, NodesText)
            /\ reqs[r].local = EmptyChannels
            /\ reqs[r].puts = 0

\* What holds on both endpoints: the 400 that names the requested node,
\* before the graph is invoked.
C5_RejectedBeforeGraph ==
    \A r \in Slots :
        (reqs[r].pc = "rejected") =>
            /\ reqs[r].node \notin NODES
            /\ reqs[r].status = 400
            /\ Contains(reqs[r].detail, reqs[r].node)
            /\ reqs[r].endpoint = "invoke" => Contains(reqs[r].detail, NodesText)
            /\ reqs[r].local = EmptyChannels
            /\ reqs[r].puts = 0

\* A /stream request for an unregistered node, rejected without the node set.
C5_Witness ==
    \E r \in Slots :
        /\ reqs[r].pc = "rejected"
        /\ reqs[r].endpoint = "stream"
        /\ reqs[r].detail = <<"Unknown node: ", "researcher">>

\* C6: a successful invocation that ran with no other request on its thread
\* in flight leaves a stored message sequence that has the sequence stored
\* before it as a strict prefix and ends at least two messages longer, the
\* request's user message and the response among them; also when the
\* summarization stage fired inside the agent.
C6_AppendOnlyHistory ==
    \A r \in Slots :
        (reqs[r].pc = "done" /\ reqs[r].alone) =>
            LET old == reqs[r].before.values.messages
                new == reqs[r].after.values.messages
            IN  /\ IsStrictPrefix(old, new)
                /\ Len(new) >= Len(old) + 2
                /\ Len(new) >= 2
                /\ HasMessage(new, MsgId("human", reqs[r].reqNo))
                /\ new[Len(new)] = AIMessage(reqs[r].reqNo)

\* A second turn on a thread, during which the summarization stage fired.
C6_Witness ==
    \E r \in Slots :
        /\ reqs[r].pc = "done"
        /\ reqs[r].alone
        /\ enableSummarization
        /\ Len(reqs[r].before.values.messages) = 2
        /\ HasMessage(reqs[r].after.values.messages,
                      MsgId("summary", reqs[r].reqNo))

\* C7: after an invocation that failed (with no other request on its thread
\* in flight) the store holds for the thread what it held before the request
\* began, and the request's user message is not in the stored history.
C7_FailureLeavesStore ==
    \A r \in Slots :
        (reqs[r].pc = "failed" /\ reqs[r].alone) =>
            /\ reqs[r].after = reqs[r].before
            /\ ~HasMessage(reqs[r].after.values.messages,
                           MsgId("human", reqs[r].reqNo))

\* A failed first request on a thread whose user message is stored.
C7_Witness ==
    \E r \in Slots :
        /\ reqs[r].pc = "failed"
        /\ reqs[r].alone
        /\ ~reqs[r].before.exists
        /\ reqs[r].after.values.messages =
               <<HumanMessage(reqs[r].message, reqs[r].reqNo)>>

\* C8: after a stream that its consumer abandoned (with no other request on
\* its thread in flight) the store holds for the thread what it held before
\* the request began: the run saved no checkpoint.
C8_AbandonedStreamLeavesStore ==
    \A r \in Slots :
        (reqs[r].pc = "abandoned" /\ reqs[r].alone) =>
            /\ reqs[r].after = reqs[r].before
            /\ reqs[r].puts = 0

\* A stream abandoned after its first token, with the user message stored.
C8_Witness ==
    \E r \in Slots :
        /\ reqs[r].pc = "abandoned"
        /\ reqs[r].alone
        /\ reqs[r].events = <<"data: token">>
        /\ reqs[r].puts = 1
        /\ reqs[r].after /= reqs[r].before

\* C9: every finished event stream ends with "data: [DONE]"; a failed one
\* has the error event right before it.
C9_StreamEndsWithDone ==
    \A r \in Slots :
        (reqs[r].endpoint = "stream" /\ reqs[r].pc \in {"done", "failed"}) =>
            LET ev == reqs[r].events IN
            /\ Len(ev) >= 1
            /\ ev[Len(ev)] = "data: [DONE]"
            /\ reqs[r].pc = "failed" =>
                   /\ Len(ev) >= 2
                   /\ ev[Len(ev) - 1] = "data: Error: model call failed"

\* What holds: a stream that completed ends with the sentinel, a stream
\* that failed ends with the in-band error event.
C9_StreamLastEvent ==
    \A r \in Slots :
        (reqs[r].endpoint = "stream" /\ reqs[r].pc \in {"done", "failed"}) =>
            LET ev == reqs[r].events IN
            /\ Len(ev) >= 1
            /\ reqs[r].pc = "done" => ev[Len(ev)] = "data: [DONE]"
            /\ reqs[r].pc = "failed" =>
                   ev[Len(ev)] = "data: Error: model call failed"

\* A stream that failed after a token and ended without the sentinel.
C9_Witness ==
    \E r \in Slots :
        /\ reqs[r].endpoint = "stream"
        /\ reqs[r].pc = "failed"
        /\ reqs[r].events = <<"data: token", "data: Error: model call failed">>

\* C10: when two requests that ran concurrently on one thread have both
\* succeeded, the stored history holds both user messages and both
\* responses, and one request's turn lies wholly before the other's.
C10_ConcurrentRequestsSerialize ==
    \A r1, r2 \in Slots :
        (/\ r1 /= r2
         /\ reqs[r1].pc = "done" /\ reqs[r2].pc = "done"
         /\ reqs[r1].thread_id = reqs[r2].thread_id
         /\ ~reqs[r1].alone /\ ~reqs[r2].alone
         /\ reqs[r1].reqNo < reqs[r2].reqNo) =>
            LET msgs == store[reqs[r1].thread_id].values.messages
                u1 == MsgId("human", reqs[r1].reqNo)
                a1 == MsgId("ai", reqs[r1].reqNo)
                u2 == MsgId("human", reqs[r2].reqNo)
                a2 == MsgId("ai", reqs[r2].reqNo)
            IN  /\ HasMessage(msgs, u1) /\ HasMessage(msgs, a1)
                /\ HasMessage(msgs, u2) /\ HasMessage(msgs, a2)
                /\ \/ Position(msgs, a1) < Position(msgs, u2)
                   \/ Position(msgs, a2) < Position(msgs, u1)

\* Two concurrent requests on one thread both succeeded and the response of
\* the first is not in the stored history.
C10_Witness ==
    \E r1, r2 \in Slots :
        /\ r1 /= r2
        /\ reqs[r1].pc = "done" /\ reqs[r2].pc = "done"
        /\ reqs[r1].thread_id = reqs[r2].thread_id
        /\ ~reqs[r1].alone /\ ~reqs[r2].alone
        /\ ~HasMessage(store[reqs[r1].thread_id].values.messages,
                       MsgId("ai", reqs[r1].reqNo))

\* C12: a thread id that was never used holds no state in the store; the
\* graph run that is the first on a thread starts from the empty history:
\* it does not fail at the load, and the checkpoint it saves holds the
\* request's user message and nothing else; when such a request completes,
\* with no other request on its thread in flight, it is answered 200 and the
\* first stored message is its user message.
C12_UnseenThreadStartsEmpty ==
    /\ [](\A i \in 1 .. MaxRequests :
              i > reqCount => ~store[UuidNames[i]].exists)
    /\ [][\A r \in Slots :
              LET q == reqs[r]
                  u == <<HumanMessage(q.message, q.reqNo)>>
              IN  (/\ q.pc = "accepted"
                   /\ ~store[q.thread_id].exists
                   /\ reqs'[r].pc \notin {"accepted", "abandoned"}) =>
                      /\ reqs'[r].pc = "running"
                      /\ reqs'[r].local.messages = u
                      /\ store'[q.thread_id].exists
                      /\ store'[q.thread_id].values.messages = u]_vars
    /\ [][\A t \in ThreadIds :
              (~store[t].exists /\ store'[t].exists) =>
                  \E r \in Slots : /\ reqs[r].pc = "accepted"
                                   /\ reqs[r].thread_id = t
                                   /\ reqs'[r].pc = "running"]_vars
    /\ [](\A r \in Slots :
              (reqs[r].pc = "done" /\ ~reqs[r].before.exists
                  /\ reqs[r].alone) =>
                  /\ reqs[r].status = 200
                  /\ reqs[r].after.exists
                  /\ reqs[r].after.values.messages[1] =
                         HumanMessage(reqs[r].message, reqs[r].reqNo)
                  /\ store[reqs[r].thread_id].exists
                  /\ store[reqs[r].thread_id].values.messages[1] =
                         HumanMessage(reqs[r].message, reqs[r].reqNo))

\* The second request of a behaviour came without a thread id, ran on a
\* fresh one while the thread of the first request held state, and
\* completed with its own user message first in the stored history.
C12_Witness ==
    \E r \in Slots :
        /\ reqs[r].pc = "done"
        /\ reqs[r].reqNo = 2
        /\ reqs[r].thread_id = UuidNames[2]
        /\ ~reqs[r].before.exists
        /\ store["t1"].exists
        /\ store[UuidNames[2]].values.messages[1] =
               HumanMessage(reqs[r].message, 2)

\* C20: for every accepted request, on /invoke and on /stream, with a thread
\* id given by the client or generated, the session id of the Context Record
\* is the request's thread id; a thread id reported to the client (the body
\* of /invoke's response, the X-Thread-ID header of /stream's) is that same
\* id; and a step of the request changes the store under that id only.
C20_SessionIdIsThreadId ==
    /\ [](\A r \in Slots :
              (InFlight(reqs[r]) \/ reqs[r].pc \in {"done", "failed", "abandoned"}) =>
                  /\ reqs[r].thread_id \in ThreadIds
                  /\ reqs[r].context.session_id = reqs[r].thread_id
                  /\ reqs[r].reported \in {"", reqs[r].thread_id}
                  /\ reqs[r].endpoint = "stream" =>
                         reqs[r].reported = reqs[r].thread_id
                  /\ reqs[r].pc = "done" =>
                         reqs[r].reported = reqs[r].thread_id)
    /\ [][\A t \in ThreadIds :
              (store'[t] /= store[t]) =>
                  \E r \in Slots :
                      /\ InFlight(reqs[r])
                      /\ reqs'[r] /= reqs[r]
                      /\ reqs[r].thread_id = t
                      /\ reqs[r].context.session_id = t
                      /\ \A o \in Slots \ {r} : reqs'[o] = reqs[o]]_vars

\* An /invoke request without a thread id completed: the generated id is in
\* the context, in the response and is the key of the stored state.
C20_Witness ==
    \E r \in Slots :
        /\ reqs[r].pc = "done"
        /\ reqs[r].endpoint = "invoke"
        /\ reqs[r].thread_id = UuidNames[1]
        /\ reqs[r].context.session_id = UuidNames[1]
        /\ reqs[r].reported = UuidNames[1]
        /\ store[UuidNames[1]] = reqs[r].after
        /\ ~store["t1"].exists

\* C22: every graph execution takes a single routing hop.  A run that has
\* started has left START for exactly one node, which is registered and is
\* the node named by the request's routing field; no second node is ever
\* entered; a run that completed went START -> that node -> END, and the
\* routing field of the state saved after the hop is the requested node
\* name.  (A run whose node raises, or whose stream is abandoned, stops
\* inside that one node.)
C22_SingleRoutingHop ==
    \A r \in Slots :
        LET q == reqs[r] IN
        /\ (q.pc \in {"idle", "rejected", "accepted"}) => q.path = <<>>
        /\ (q.path /= <<>>) =>
              /\ Len(q.path) \in {2, 3}
              /\ q.path[1] = START
              /\ q.path[2] = q.node
              /\ q.path[2] \in NODES
              /\ (Len(q.path) = 3) => q.path[3] = END
              /\ q.local.hasNode /\ q.local.node = q.node
        /\ (q.pc = "running") => q.path = <<START, q.node>>
        /\ (q.pc = "done") =>
              /\ q.path = <<START, q.node, END>>
              /\ q.puts = 2
              /\ q.after.exists
              /\ q.after.values.hasNode
              /\ q.after.values.node = q.node

\* The second request on thread t1 has completed: its run found the routing
\* field of the first one in the checkpoint, went through the node once and
\* ended.
C22_Witness ==
    \E r \in Slots :
        /\ reqs[r].pc = "done"
        /\ reqs[r].reqNo = 2
        /\ reqs[r].thread_id = "t1"
        /\ reqs[r].before.exists
        /\ reqs[r].before.values.hasNode
        /\ reqs[r].path = <<START, "assistant", END>>
        /\ reqs[r].after.values.node = "assistant"
        /\ Len(reqs[r].after.values.messages) >= 3

\* C24: thread isolation.  Whatever requests run (completing, failing or
\* abandoned, one after the other or interleaved), a step changes the
\* conversation state stored under a thread id only when it is a step of a
\* request in flight on that very thread id; the state stored under every
\* other thread id is the same after the step as before it.
C24_ThreadIsolation ==
    [][\A t \in ThreadIds :
          (store'[t] /= store[t]) =>
              /\ \E r \in Slots :
                    /\ InFlight(reqs[r])
                    /\ reqs[r].thread_id = t
                    /\ reqs'[r] /= reqs[r]
                    /\ \A o \in Slots \ {r} : reqs'[o] = reqs[o]
              /\ \A u \in ThreadIds \ {t} : store'[u] = store[u]]_vars

\* A request completed on thread t1 and a second request, on a generated
\* thread id, failed in its node: each thread holds what its own request
\* saved, and t1 holds exactly what its request left there.
C24_Witness ==
    \E r, o \in Slots :
        /\ reqs[r].pc = "done" /\ reqs[r].thread_id = "t1"
        /\ reqs[r].reqNo = 1
        /\ reqs[o].pc = "failed" /\ reqs[o].thread_id = UuidNames[2]
        /\ reqs[o].puts = 1
        /\ store["t1"] = reqs[r].after
        /\ Len(store["t1"].values.messages) = 2
        /\ store[UuidNames[2]].exists
        /\ store[UuidNames[2]].values.messages =
              <<HumanMessage(reqs[o].message, 2)>>

(***************************************************************************)
(* Properties of the RequestContext record (checked under SpecContext).    *)
(***************************************************************************)

\* C19: the fields of a Context Record keep the values the record was
\* created with; the record type prevents mutation, so an assignment to the
\* record executed by a handler, a middleware stage or a tool leaves user
\* id, session id, role and metadata as they were.
C19_ContextImmutable ==
    /\ ctxRecord = ctxCreated
    /\ ctxPc = "done" => ctxOutcome = "FrozenInstanceError"

\* What holds on the request path (under Spec): no step of a request in
\* flight changes the request's Context Record.
C19_RequestPathKeepsContext ==
    [][\A r \in Slots :
          InFlight(reqs[r]) => reqs'[r].context = reqs[r].context]_vars

\* The assignment context.user_id = "mallory" was executed on the record of
\* user alice and took effect.
C19_Witness ==
    /\ ctxPc = "done"
    /\ ctxStmt = [kind |-> "setattr", field |-> "user_id", value |-> "mallory"]
    /\ ctxCreated.user_id = "alice"
    /\ ctxRecord.user_id = "mallory"
    /\ ctxOutcome = "assigned"

(***************************************************************************)
(* Properties of logging_middleware (checked under SpecLogging).           *)
(***************************************************************************)

\* C18: logging_middleware invokes the inner handler exactly once, with the
\* request it received; it returns exactly the response the handler
\* returned, and when the handler raises, the same error propagates.
C18_LoggingTransparent ==
    (logPc = "done") =>
        /\ logResult.calls = <<logRequest>>
        /\ logResult.outcome.how = logScript.how
        /\ logResult.outcome.val = logScript.val

\* The handler raised on a request with messages: one line was logged, the
\* handler was invoked once and its error came out.
C18_Witness ==
    /\ logPc = "done"
    /\ logRequest.messages /= <<>>
    /\ logScript = [how |-> "raise", val |-> "RateLimitError"]
    /\ Len(logResult.calls) = 1
    /\ Len(logResult.lines) = 1
    /\ logResult.outcome = [how |-> "raise", val |-> "RateLimitError"]

(***************************************************************************)
(* Properties of the agent and its middleware chain (checked under         *)
(* SpecAgent).                                                             *)
(***************************************************************************)
ModelInputs(r) == agRuns[r].inputs

\* C11: two runs that get the same messages and the same stored state and
\* differ in the Context Record send the same inputs to the model, tool
\* results included.
C11_ContextNeverReachesModel ==
    (agRuns["a"].ctx /= agRuns["b"].ctx) =>
        ModelInputs("a") = ModelInputs("b")

\* What holds: as long as the model asks for no tool that reads the
\* context, the inputs of the two runs are the same.
C11_InputsEqualWithoutContextTools ==
    (\A k \in DOMAIN agScript : agScript[k] = "calculate") =>
        ModelInputs("a") = ModelInputs("b")

\* The model asked for get_user_info; the second model call of alice's run
\* got "User: alice, Session: t1", the one of the other run did not.
C11_Witness ==
    /\ agScript = <<"get_user_info">>
    /\ ~enableSummarization
    /\ agent.pc = "done"
    /\ Len(ModelInputs("a")) = 2
    /\ ModelInputs("a")[2][3].role = "tool"
    /\ ModelInputs("a")[2][3].content = <<"User: ", "alice", ", Session: ", "t1">>
    /\ ModelInputs("b")[2][3].content /= ModelInputs("a")[2][3].content

StageOrder == <<"summarization", "logging", "retry", "tool_error">>

\* C16: for every combination of the enable flags the chain holds exactly
\* the enabled stages and tool-error isolation, each once, in the order
\* summarization, logging, retry, tool-error isolation, with tool-error
\* isolation last; and the logging stage, where enabled, writes one request
\* line per model step, however many attempts the retry stage makes.
C16_ChainOrderAndNesting ==
    (agent.pc /= "idle") =>
        /\ InChain(agChain, "summarization") <=> enableSummarization
        /\ InChain(agChain, "logging") <=> enableLogging
        /\ InChain(agChain, "retry") <=> enableRetry
        /\ agChain[Len(agChain)] = "tool_error"
        /\ \A i, j \in DOMAIN agChain : agChain[i] = agChain[j] => i = j
        /\ \A i, j \in DOMAIN agChain :
               i < j => IndexOf(StageOrder, agChain[i])
                            < IndexOf(StageOrder, agChain[j])
        /\ agent.logRequests = (IF enableLogging THEN agent.steps ELSE 0)

\* All three flags are on; the second model step took two attempts and the
\* run has logged two request lines for three model calls.
C16_Witness ==
    /\ agChain = <<"summarization", "logging", "retry", "tool_error">>
    /\ agent.pc = "done"
    /\ agent.steps = 2
    /\ agent.stepFailures = 1
    /\ agent.modelCalls = 3
    /\ agent.logRequests = 2

CausallyConsistent(msgs) ==
    \A j \in DOMAIN msgs :
        (msgs[j].role = "tool") =>
            \E i \in 1 .. (j - 1) :
                \E c \in DOMAIN msgs[i].tool_calls :
                    msgs[i].tool_calls[c].id = msgs[j].tool_call_id

\* C21: in every state of an agent run, before and after summarization,
\* each tool-result message follows a message whose tool call has the id the
\* result carries: the messages made from a tool's str return, the message
\* of save_preference's Command and the error messages of
\* ToolErrorMiddleware alike.  The same holds for the graph state that the
\* node's return produces when the finished run's messages are merged into
\* the thread's messages by add_messages.
C21_ToolResultsFollowTheirCalls ==
    \A r \in Runs :
        /\ CausallyConsistent(agRuns[r].msgs)
        /\ (agent.pc = "done") =>
              CausallyConsistent(AddMessages(<<AgentUserMessage>>,
                                             agRuns[r].msgs))

\* save_preference returned and the second tool raised; summarization has
\* replaced the head of the sequence, and both tool messages are in it, each
\* behind the response that called its tool.
C21_Witness ==
    LET msgs == agRuns["a"].msgs IN
    /\ enableSummarization
    /\ agScript = <<"save_preference", "calculate">>
    /\ Len(msgs) = 5
    /\ msgs[1].id.kind = "summary"
    /\ msgs[2].tool_calls = <<[id |-> "call_1", name |-> "save_preference"]>>
    /\ msgs[3].role = "tool" /\ msgs[3].tool_call_id = "call_1"
    /\ msgs[3].content[1] = "Saved preference '"
    /\ msgs[4].tool_calls = <<[id |-> "call_2", name |-> "calculate"]>>
    /\ msgs[5].role = "tool" /\ msgs[5].tool_call_id = "call_2"
    /\ msgs[5].content[1] = "Tool error in '"

(***************************************************************************)
(* Properties of save_preference over the long-term store (checked under   *)
(* SpecPreferences).                                                       *)
(***************************************************************************)

\* The entries of the store at the place a call addresses.
EntriesAt(st, namespace, key) ==
    {e \in st : e.namespace = namespace /\ e.key = key}

\* The users whose earlier calls wrote at the place of entry e.
Writers(e) ==
    {prefLog[i].uid : i \in {j \in DOMAIN prefLog :
        /\ PrefNamespace(prefLog[j].context) = e.namespace
        /\ prefLog[j].key = e.key
        /\ prefLog[j].message.content[1] = "Saved preference '"}}

\* C25: every save_preference call, of a request with or without a user
\* id, writes exactly one entry of the long-term store, at namespace
\* ("preferences", user id of the request's context) and the given key,
\* and leaves every entry at another namespace or key as it was; so an
\* entry that a call replaces was saved by a request of the same user.
C25_PreferenceWritesScopedPerUser ==
    [][(prefLog' /= prefLog) =>
          LET c == prefLog'[Len(prefLog')]
              ns == <<"preferences", c.context.user_id>>
          IN
          /\ c.context.user_id = ResolveUserId(c.uid)
          /\ EntriesAt(ltStore', ns, c.key) =
                {[namespace |-> ns, key |-> c.key, value |-> c.value]}
          /\ \A e \in ltStore \cup ltStore' :
                (e.namespace /= ns \/ e.key /= c.key) =>
                    (e \in ltStore <=> e \in ltStore')
          /\ \A e \in EntriesAt(ltStore, ns, c.key) :
                Writers(e) = {c.uid}]_vars

\* What holds: the statement for the calls whose namespace the store takes.
\* A call whose context has the empty user id (the request carried none)
\* or a user id with a period writes nothing: the put raises and the call
\* ends in ToolErrorMiddleware's error message.  No call changes an entry
\* of another namespace or key, and no entry is replaced by another user.
C25_ValidNamespaceWritesOneEntry ==
    [][(prefLog' /= prefLog) =>
          LET c == prefLog'[Len(prefLog')]
              ns == <<"preferences", c.context.user_id>>
          IN
          /\ c.context.user_id = ResolveUserId(c.uid)
          /\ ValidNamespace(ns) =>
                /\ EntriesAt(ltStore', ns, c.key) =
                      {[namespace |-> ns, key |-> c.key, value |-> c.value]}
                /\ c.message.content[1] = "Saved preference '"
          /\ ~ValidNamespace(ns) =>
                /\ ltStore' = ltStore
                /\ c.message.content[1] = "Tool error in '"
          /\ c.message.tool_call_id = CallIdNames[1]
          /\ \A e \in ltStore \cup ltStore' :
                (e.namespace /= ns \/ e.key /= c.key) =>
                    (e \in ltStore <=> e \in ltStore')
          /\ \A e \in EntriesAt(ltStore, ns, c.key) :
                Writers(e) = {c.uid}]_vars

\* alice saved theme = dark; then a request without a user id called
\* save_preference: the store rejected the namespace ("preferences", ""),
\* the call ended in a tool error, and the store holds alice's entry only.
C25_Witness ==
    /\ Len(prefLog) = 2
    /\ prefLog[1].uid = "alice"
    /\ prefLog[1].message.content[1] = "Saved preference '"
    /\ prefLog[2].uid = NoUserId
    /\ prefLog[2].context.user_id = ""
    /\ prefLog[2].key = "theme"
    /\ prefLog[2].message.content[1] = "Tool error in '"
    /\ prefLog[2].message.tool_call_id = CallIdNames[1]
    /\ ltStore = {[namespace |-> <<"preferences", "alice">>,
                   key |-> "theme", value |-> "dark"]}

====
